---- MODULE Spec2Model ----
(***************************************************************************)
(* Model of the SLM-200 calibration script calibration/calibrate.py.       *)
(*                                                                         *)
(* The script is a single top-level control flow: it zero-initialises the  *)
(* aggregate arrays, then loops over `range(1)`: load a dataset, build the *)
(* Stage0 guess and bound box, call scipy's curve_fit on the linear model, *)
(* print the result, evaluate the linear model on the dense grid and plot  *)
(* it; after the loop it decorates the axes and shows the figure.  The     *)
(* first- and second-order fits and the ratio assignments (lines 104-123   *)
(* and 126-129) are commented out in the source and therefore are not part *)
(* of the program's behaviour.  No statement is wrapped in try/except: an  *)
(* exception raised by curve_fit ends the process.                         *)
(*                                                                         *)
(* Numbers.  Greyscales and intensities are integers.  A spatial frequency *)
(* is a non-negative rational multiple of pi, [num, den] standing for      *)
(* pi*num/den; den = 0 (with num > 0) stands for +inf, which is what numpy *)
(* yields for pi / (2 * 0.0).                                              *)
(*                                                                         *)
(* The module also models the puzzlepiece piece SlmDVI of slm_code/slm.py  *)
(* (specification SlmSpec): its params, the device behind _slm_win, and    *)
(* one action per handler, every device call being free to answer SLM_OK   *)
(* or an error.  The Phase param holds an IEEE-754 double, kept as its     *)
(* binary digits, so that int(Phase * 100) is computed as Python does.     *)
(***************************************************************************)
EXTENDS Integers, Sequences, FiniteSets, TLC

\* ------------------------------------------------------------ constants
NumWavelengths == 5
LoopCount == 1
PeakWindow == 30
MaxGrey == 1023
PsHalfWidth == 50
ScaleFactor == 10

\* ------------------------------------------------------------ bounds
NumSamples == 32
MaxIntensity == 2

\* the calibration script's variables
VARIABLES pc, i, grey, intensity, p_guess0, lower0, upper0, p_optimize0,
          nonlinearity1, nonlinearity2, err, plotted, printed, fitCalls, exc

scriptVars == <<pc, i, grey, intensity, p_guess0, lower0, upper0, p_optimize0,
                nonlinearity1, nonlinearity2, err, plotted, printed, fitCalls, exc>>

\* one evaluation of the three model functions: its arguments and its results
VARIABLES mdl

modelVars == <<mdl>>

\* the SlmDVI piece: the puzzle's debug flag, the piece's params, the device
\* behind _slm_win, and the latest handler invocation with what it did
VARIABLES debug, slm_open, display_open, display_number, display_options,
          wavelength, phase, contrast, dev, last

slmVars == <<debug, slm_open, display_open, display_number, display_options,
             wavelength, phase, contrast, dev, last>>

vars == <<scriptVars, modelVars, slmVars>>

\* ------------------------------------------------------------ numbers
Abs(n) == IF n < 0 THEN -n ELSE n

\* pi*num/den
Freq(n, d) == [num |-> n, den |-> d]

\* f <= g for frequencies (cross-multiplication; exact for den = 0 too)
FreqLe(f, g) == f.num * g.den <= g.num * f.den

FreqLt(f, g) == ~FreqLe(g, f)

FreqFinite(f) == f.den # 0

\* 2*f - g
FreqTwiceMinus(f, g) == Freq(2 * f.num * g.den - g.num * f.den, f.den * g.den)

\* np.zeros(n)
Zeros(n) == [k \in 1..n |-> 0]

\* ------------------------------------------------------------ datasets
\* np.argmax(s[:n]): the first index at which the largest of the first n values sits
ArgMaxFirst(s, n) ==
    LET m == IF Len(s) < n THEN Len(s) ELSE n
    IN  CHOOSE k \in 1..m : /\ \A j \in 1..m : s[j] <= s[k]
                            /\ \A j \in 1..(k - 1) : s[j] < s[k]

\* np.argmin(s): the first index at which the smallest value sits
ArgMin(s) ==
    CHOOSE k \in 1..Len(s) : /\ \A j \in 1..Len(s) : s[k] <= s[j]
                             /\ \A j \in 1..(k - 1) : s[k] < s[j]

SeqMax(s) == CHOOSE v \in {s[k] : k \in 1..Len(s)} : \A j \in 1..Len(s) : s[j] <= v

SeqMin(s) == CHOOSE v \in {s[k] : k \in 1..Len(s)} : \A j \in 1..Len(s) : v <= s[j]

\* The files np.loadtxt can be given: NumSamples rows, greyscale rising in equal
\* steps from 0 (step 1, or the widest step that stays within 0..MaxGrey), the
\* intensity at a base level except at one raised and one lowered sample.
GreySteps == {1, MaxGrey \div (NumSamples - 1)}

MarkedIdx == {1, 2, NumSamples \div 2, NumSamples \div 2 + 1, NumSamples - 1, NumSamples}

GreyColumn(step) == [k \in 1..NumSamples |-> step * (k - 1)]

IntensityColumn(a, hi, b, lo, base) ==
    [k \in 1..NumSamples |-> IF k = a THEN hi ELSE IF k = b THEN lo ELSE base]

Datasets ==
    { [grey |-> GreyColumn(step), intensity |-> IntensityColumn(a, hi, b, lo, base)] :
        step \in GreySteps, a \in MarkedIdx, b \in MarkedIdx,
        hi \in 0..MaxIntensity, lo \in 0..MaxIntensity, base \in 0..MaxIntensity }

\* ------------------------------------------------------------ Stage0 guess
\* index 3 of a parameter vector (python's [2]) is the frequency
FreqIdx == 3

ParamLe(k, x, y) == IF k = FreqIdx THEN FreqLe(x, y) ELSE x <= y

ParamLt(k, x, y) == IF k = FreqIdx THEN FreqLt(x, y) ELSE x < y

\* ps_guess = grey[np.argmax(intensity[:30])]
PsGuess(g, s) == g[ArgMaxFirst(s, PeakWindow)]

\* scale_guess = np.max(intensity)
ScaleGuess(s) == SeqMax(s)

\* np.abs(grey[np.argmax(intensity[:30])] - grey[np.argmin(intensity)])
PeakMinDistance(g, s) == Abs(g[ArgMaxFirst(s, PeakWindow)] - g[ArgMin(s)])

\* the frequency guess with the factor 2 of the denominator dropped
FreqGuessNoHalf(g, s) == Freq(1, PeakMinDistance(g, s))

\* freq_guess = np.pi / (2 * distance): +inf when the distance is 0
FreqGuess(g, s) == Freq(1, 2 * PeakMinDistance(g, s))

\* i_shift = np.min(intensity)
IShift(s) == SeqMin(s)

\* freq_lower = np.pi / 1023
FreqLower == Freq(1, MaxGrey)

\* freq_upper = 2 * freq_guess - np.pi / 1023
FreqUpper(g, s) == FreqTwiceMinus(FreqGuess(g, s), FreqLower)

BuildP_guess0(g, s) == <<PsGuess(g, s), ScaleGuess(s), FreqGuess(g, s), IShift(s)>>

BuildLower0(g, s) ==
    <<PsGuess(g, s) - PsHalfWidth, ScaleGuess(s) - ScaleFactor * IShift(s), FreqLower, 0>>

BuildUpper0(g, s) ==
    <<PsGuess(g, s) + PsHalfWidth, ScaleGuess(s) + ScaleFactor * IShift(s),
      FreqUpper(g, s), ScaleFactor * IShift(s)>>

\* ------------------------------------------------------------ curve_fit
\* lower <= p <= upper in every coordinate (scipy's in_bounds)
InBounds(p, lo, up) ==
    \A k \in 1..Len(p) : ParamLe(k, lo[k], p[k]) /\ ParamLe(k, p[k], up[k])

\* curve_fit(..., sigma=REL_Y_ERR*intensity, bounds=(lo, up)) raises ValueError
\* before any iteration when a bound pair is not strictly ordered, when the
\* guess is outside the box, or when the weighted residuals at the guess are
\* not finite (a zero intensity gives sigma = 0; an infinite frequency gives
\* cos(inf) = nan).
FitValueError(s, p, lo, up) ==
    \/ \E k \in 1..Len(p) : ~ParamLt(k, lo[k], up[k])
    \/ ~InBounds(p, lo, up)
    \/ \E k \in 1..Len(s) : s[k] = 0
    \/ ~FreqFinite(p[FreqIdx])

\* what a converged bounded fit can return: a point of the box
FitResults(p, lo, up) == {lo, p, up}

\* ------------------------------------------------------------ the script
Init ==
    /\ pc = "load"
    /\ i = 0
    /\ grey = <<>>
    /\ intensity = <<>>
    /\ p_guess0 = <<>>
    /\ lower0 = <<>>
    /\ upper0 = <<>>
    /\ p_optimize0 = <<>>
    /\ nonlinearity1 = Zeros(NumWavelengths)
    /\ nonlinearity2 = Zeros(NumWavelengths)
    /\ err = [k \in 1..NumWavelengths |-> Zeros(2)]
    /\ plotted = <<>>
    /\ printed = <<>>
    /\ fitCalls = <<>>
    /\ exc = "none"

\* line 83: grey, intensity = np.loadtxt(data_paths[i], ...)
Load ==
    /\ pc = "load"
    /\ i < LoopCount
    /\ \E d \in Datasets : grey' = d.grey /\ intensity' = d.intensity
    /\ pc' = "guess"
    /\ UNCHANGED <<i, p_guess0, lower0, upper0, p_optimize0, nonlinearity1,
                   nonlinearity2, err, plotted, printed, fitCalls, exc>>

\* lines 85-96: the Stage0 guess and bound box; no check, no exception
BuildGuess0 ==
    /\ pc = "guess"
    /\ p_guess0' = BuildP_guess0(grey, intensity)
    /\ lower0' = BuildLower0(grey, intensity)
    /\ upper0' = BuildUpper0(grey, intensity)
    /\ pc' = "fit"
    /\ UNCHANGED <<i, grey, intensity, p_optimize0, nonlinearity1, nonlinearity2,
                   err, plotted, printed, fitCalls, exc>>

FitCall(w, st, out) == [wav |-> w, stage |-> st, outcome |-> out]

\* lines 98-101, curve_fit rejects its arguments: uncaught ValueError
Fit0Rejected ==
    /\ pc = "fit"
    /\ FitValueError(intensity, p_guess0, lower0, upper0)
    /\ fitCalls' = Append(fitCalls, FitCall(i, 0, "ValueError"))
    /\ exc' = "ValueError"
    /\ pc' = "crashed"
    /\ UNCHANGED <<i, grey, intensity, p_guess0, lower0, upper0, p_optimize0,
                   nonlinearity1, nonlinearity2, err, plotted, printed>>

\* the non-convergence caught and the same fit called again
Fit0NotConvergedRetry ==
    /\ pc = "fit"
    /\ ~FitValueError(intensity, p_guess0, lower0, upper0)
    /\ fitCalls' = Append(fitCalls, FitCall(i, 0, "RuntimeError"))
    /\ pc' = "fit"
    /\ UNCHANGED <<i, grey, intensity, p_guess0, lower0, upper0, p_optimize0,
                   nonlinearity1, nonlinearity2, err, plotted, printed, exc>>

\* lines 98-101, the solver does not converge: uncaught RuntimeError
Fit0NotConverged ==
    /\ pc = "fit"
    /\ ~FitValueError(intensity, p_guess0, lower0, upper0)
    /\ fitCalls' = Append(fitCalls, FitCall(i, 0, "RuntimeError"))
    /\ exc' = "RuntimeError"
    /\ pc' = "crashed"
    /\ UNCHANGED <<i, grey, intensity, p_guess0, lower0, upper0, p_optimize0,
                   nonlinearity1, nonlinearity2, err, plotted, printed>>

\* lines 98-102, the fit returns: p_optimize0 is bound and printed
Fit0Converged ==
    /\ pc = "fit"
    /\ ~FitValueError(intensity, p_guess0, lower0, upper0)
    /\ \E p \in FitResults(p_guess0, lower0, upper0) :
          /\ p_optimize0' = p
          /\ printed' = Append(printed, p)
    /\ fitCalls' = Append(fitCalls, FitCall(i, 0, "ok"))
    /\ pc' = "emit"
    /\ UNCHANGED <<i, grey, intensity, p_guess0, lower0, upper0, nonlinearity1,
                   nonlinearity2, err, plotted, exc>>

\* line 124: curve_fit = linear_cos_square(grey_curve, *p_optimize0)
EmittedCurve(p) == [model |-> "linear", params |-> p]

\* lines 124-134: the dense curve of the linear model and the two plot calls;
\* then the loop header of line 82 again
Emit ==
    /\ pc = "emit"
    /\ plotted' = Append(plotted, [wav |-> i, curve |-> EmittedCurve(p_optimize0)])
    /\ i' = i + 1
    /\ pc' = IF i + 1 < LoopCount THEN "load" ELSE "show"
    /\ UNCHANGED <<grey, intensity, p_guess0, lower0, upper0, p_optimize0,
                   nonlinearity1, nonlinearity2, err, printed, fitCalls, exc>>

\* lines 136-151: axis decoration and plt.show(); the aggregate arrays are not plotted
Show ==
    /\ pc = "show"
    /\ pc' = "finished"
    /\ UNCHANGED <<i, grey, intensity, p_guess0, lower0, upper0, p_optimize0,
                   nonlinearity1, nonlinearity2, err, plotted, printed, fitCalls, exc>>

\* ------------------------------------------------------------ IEEE doubles
\* A non-negative double is kept as the bits (most significant first) of the
\* integer value * 2^FracBits.  The values met here are k/100 and its product
\* with 100 for k up to 999, all far above 2^-FracBits and below 2^10.  Long
\* division and multiplication go limb by limb, a limb being LimbBits bits.
MantissaBits == 53

FracBits == 64

LimbBits == 16

\* the binary digits of n
RECURSIVE BitsOf(_)
BitsOf(n) == IF n = 0 THEN <<>> ELSE Append(BitsOf(n \div 2), n % 2)

\* the number a short bit string stands for
RECURSIVE ValueOf(_)
ValueOf(bits) ==
    IF bits = <<>> THEN 0
    ELSE 2 * ValueOf(SubSeq(bits, 1, Len(bits) - 1)) + bits[Len(bits)]

ZeroBits(n) == [k \in 1..n |-> 0]

StripLeadingZeros(bits) ==
    IF \A k \in 1..Len(bits) : bits[k] = 0 THEN <<>>
    ELSE LET first == CHOOSE k \in 1..Len(bits) :
                          bits[k] = 1 /\ \A j \in 1..(k - 1) : bits[j] = 0
         IN  SubSeq(bits, first, Len(bits))

\* bits + 1
Increment(bits) ==
    IF \A k \in 1..Len(bits) : bits[k] = 1 THEN <<1>> \o ZeroBits(Len(bits))
    ELSE LET low == CHOOSE k \in 1..Len(bits) :
                        bits[k] = 0 /\ \A j \in (k + 1)..Len(bits) : bits[j] = 1
         IN  SubSeq(bits, 1, low - 1) \o <<1>> \o ZeroBits(Len(bits) - low)

\* a bit string cut into limbs, most significant first
LimbsOf(bits) ==
    LET padded == ZeroBits((LimbBits - (Len(bits) % LimbBits)) % LimbBits) \o bits
    IN  [j \in 1..(Len(padded) \div LimbBits) |->
            ValueOf(SubSeq(padded, (j - 1) * LimbBits + 1, j * LimbBits))]

BitsOfLimbs(limbs) ==
    [k \in 1..(LimbBits * Len(limbs)) |->
        (limbs[(k - 1) \div LimbBits + 1] \div (2 ^ (LimbBits - 1 - ((k - 1) % LimbBits)))) % 2]

\* long division of limbs by a small number q, r the remainder carried in
RECURSIVE DivideFrom(_, _, _)
DivideFrom(limbs, q, r) ==
    IF limbs = <<>> THEN [quot |-> <<>>, rem |-> r]
    ELSE LET t == r * (2 ^ LimbBits) + limbs[1]
             rest == DivideFrom(Tail(limbs), q, t % q)
         IN  [quot |-> <<t \div q>> \o rest.quot, rem |-> rest.rem]

\* quotient bits and remainder of a bit string divided by a small number q
DivideBy(bits, q) ==
    LET d == DivideFrom(LimbsOf(bits), q, 0)
    IN  [quot |-> StripLeadingZeros(BitsOfLimbs(d.quot)), rem |-> d.rem]

\* product of limbs with a small number m: the carry out of the top limb and the limbs
RECURSIVE MultiplyLow(_, _)
MultiplyLow(limbs, m) ==
    IF limbs = <<>> THEN [carry |-> 0, low |-> <<>>]
    ELSE LET rest == MultiplyLow(Tail(limbs), m)
             t == m * limbs[1] + rest.carry
         IN  [carry |-> t \div (2 ^ LimbBits), low |-> <<t % (2 ^ LimbBits)>> \o rest.low]

\* product of a bit string with a small number m
MultiplyBy(bits, m) ==
    LET p == MultiplyLow(LimbsOf(bits), m)
    IN  StripLeadingZeros(BitsOf(p.carry) \o BitsOfLimbs(p.low))

\* round-to-nearest, ties-to-even, to MantissaBits significant bits; `inexact`
\* says that the exact value lies strictly above the bit string
RoundToDouble(bits, inexact) ==
    LET n == Len(bits)
    IN  IF n <= MantissaBits THEN bits
        ELSE LET head == SubSeq(bits, 1, MantissaBits)
                 guard == bits[MantissaBits + 1]
                 sticky == inexact \/ \E k \in (MantissaBits + 2)..n : bits[k] = 1
                 up == guard = 1 /\ (sticky \/ head[MantissaBits] = 1)
             IN  (IF up THEN Increment(head) ELSE head) \o ZeroBits(n - MantissaBits)

\* the double nearest to k/100: what a spinbox of two decimals holds for k hundredths
DoubleOfHundredths(k) ==
    LET d == DivideBy(BitsOf(k) \o ZeroBits(FracBits), 100)
    IN  RoundToDouble(d.quot, d.rem # 0)

\* x * 100 in double arithmetic
Times100(x) == RoundToDouble(MultiplyBy(x, 100), FALSE)

\* int(x): truncation
Truncate(x) == IF Len(x) <= FracBits THEN 0 ELSE ValueOf(SubSeq(x, 1, Len(x) - FracBits))

\* ------------------------------------------------------------ SlmDVI params
SlmNumber == 1
NumPorts == 8
DefaultWavelength == 575
MinWavelength == 450
MaxWavelength == 1600
DefaultPhase == 200
MaxPhase == 999
MaxContrast == 1023

\* the double a Phase spinbox holds when it shows k hundredths
DoubleTable == [k \in 0..MaxPhase |-> DoubleOfHundredths(k)]

PhaseValue(k) == DoubleTable[k]

\* Display Number is a string: '' or the decimal text of a port number
DigitStr == <<"1", "2", "3", "4", "5", "6", "7", "8">>

StrOf(n) == DigitStr[n]

\* int(self.params['Display Number'].value)
IntOf(s) == CHOOSE n \in 1..NumPorts : DigitStr[n] = s

NoInvocation ==
    [action |-> "none", raised |-> "none", entered |-> FALSE, calls |-> <<>>,
     pre_slm_open |-> FALSE, pre_display_open |-> FALSE, pre_display |-> 0]

\* the params as define_params creates them (lines 127-211)
ParamsDefault ==
    /\ slm_open = FALSE
    /\ display_open = FALSE
    /\ display_number = ""
    /\ display_options = {}
    /\ wavelength = DefaultWavelength
    /\ phase = PhaseValue(DefaultPhase)
    /\ contrast = 0
    /\ last = NoInvocation

\* the piece is not running while the script or the model functions are looked at
SlmIdle ==
    /\ debug = FALSE
    /\ ParamsDefault
    /\ dev = [open |-> FALSE, display |-> 0, wl |-> DefaultWavelength, ph |-> DefaultPhase]

\* no model evaluation is pending while the script runs
ModelIdle == mdl = [args |-> <<>>, out |-> <<>>]

SpecInit == Init /\ ModelIdle /\ SlmIdle

Next ==
    \/ Load /\ UNCHANGED <<modelVars, slmVars>>
    \/ BuildGuess0 /\ UNCHANGED <<modelVars, slmVars>>
    \/ Fit0Rejected /\ UNCHANGED <<modelVars, slmVars>>
    \/ Fit0NotConverged /\ UNCHANGED <<modelVars, slmVars>>
    \/ Fit0Converged /\ UNCHANGED <<modelVars, slmVars>>
    \/ Emit /\ UNCHANGED <<modelVars, slmVars>>
    \/ Show /\ UNCHANGED <<modelVars, slmVars>>

Spec == SpecInit /\ [][Next]_vars

\* ------------------------------------------------------------ model library
\* The three models are a * cos(arg)**2 + c.  A prediction is kept as the triple
\* of a, the phase argument arg and c; the phase argument is computed exactly.
CosSquare(a, arg, c) == [scale |-> a, arg |-> arg, shift |-> c]

\* the first-order phase with the linear term taken about -x0
Nonlinear1PhaseSignSlip(x, x0, b, d) == d * (x - x0) * (x - x0) + b * (x + x0)

\* b * (x - x0)
LinearPhase(x, x0, b) == b * (x - x0)

\* d * (x - x0) ** 2 + b * (x - x0)
Nonlinear1Phase(x, x0, b, d) == d * (x - x0) * (x - x0) + b * (x - x0)

\* e * (x - x0) ** 3 + d * (x - x0) ** 2 + b * (x - x0)
Nonlinear2Phase(x, x0, b, d, e) ==
    e * (x - x0) * (x - x0) * (x - x0) + d * (x - x0) * (x - x0) + b * (x - x0)

linear_cos_square(x, x0, a, b, c) == CosSquare(a, LinearPhase(x, x0, b), c)

nonlinear1_cos_square(x, x0, a, b, c, d) == CosSquare(a, Nonlinear1Phase(x, x0, b, d), c)

nonlinear2_cos_square(x, x0, a, b, c, d, e) ==
    CosSquare(a, Nonlinear2Phase(x, x0, b, d, e), c)

\* the arguments the models are evaluated at
ModelArgs ==
    [x : {0, 1, 511, MaxGrey}, x0 : {0, 300}, a : {1, 50}, b : {-1, 0, 2},
     c : {0, 5}, d : {-1, 0, 1}, e : {-1, 0, 1}]

ModelInit ==
    /\ Init
    /\ SlmIdle
    /\ \E v \in ModelArgs : mdl = [args |-> v, out |-> <<>>]

\* the three model functions applied to the same greyscale and parameters
EvaluateModels ==
    /\ mdl.out = <<>>
    /\ mdl' = [mdl EXCEPT !.out =
                  LET v == mdl.args
                  IN  [linear |-> linear_cos_square(v.x, v.x0, v.a, v.b, v.c),
                       first |-> nonlinear1_cos_square(v.x, v.x0, v.a, v.b, v.c, v.d),
                       second |-> nonlinear2_cos_square(v.x, v.x0, v.a, v.b, v.c, v.d, v.e)]]
    /\ UNCHANGED <<scriptVars, slmVars>>

ModelNext == EvaluateModels

ModelSpec == ModelInit /\ [][ModelNext]_vars

\* ------------------------------------------------------------ SlmDVI handlers
\* bounds of the exploration: how far Contrast is incremented, the ports that
\* answer as LCOS-SLM, the Phase values the user types, and the register
\* contents the device starts with
ContrastCap == 1

LcosDisplays == {1, 2}

PhaseChoices == {29, MaxPhase}

DevWavelengths == {633}

DevPhases == {DefaultPhase, MaxPhase + 1}

\* int(self.params['Phase'].value * 100)
MachinePhase(x) == Truncate(Times100(x))

\* float(phase.value / 100) as the Phase spinbox keeps it (0.00 .. 9.99)
PhaseOfMachine(p) == PhaseValue(IF p > MaxPhase THEN MaxPhase ELSE p)

\* wavelength.value as the Wavelength spinbox keeps it (450 .. 1600)
ClampWavelength(w) ==
    IF w < MinWavelength THEN MinWavelength
    ELSE IF w > MaxWavelength THEN MaxWavelength ELSE w

\* one call into _slm_win and whether it answered SLM_OK
Call(fn, args, ok) == [fn |-> fn, args |-> args, ok |-> ok]

\* what the latest handler did, with the flags it found
Invocation(name, raised, entered, calls) ==
    [action |-> name, raised |-> raised, entered |-> entered, calls |-> calls,
     pre_slm_open |-> slm_open, pre_display_open |-> display_open,
     pre_display |-> dev.display]

\* the ensurers
EnsureSlmOpen == debug \/ slm_open

EnsureSlmReady(status) == debug \/ status

EnsureDisplayOpenSkipped == TRUE

EnsureDisplayOpen == debug \/ display_open

EnsureDisplayNumber == debug \/ display_number # ""

\* _ensure_slm_ready reads the status once _ensure_slm_open has passed
StatusCalls(status) ==
    IF ~debug /\ EnsureSlmOpen
    THEN <<Call("SLM_Ctrl_ReadSU", <<SlmNumber>>, status)>>
    ELSE <<>>

SlmGate(status) == EnsureSlmOpen /\ EnsureSlmReady(status)

DisplayGate(status) == SlmGate(status) /\ EnsureDisplayOpen

\* an ensurer raised: the body never runs
Refused(name, status) ==
    /\ last' = Invocation(name, "SlmError", FALSE, StatusCalls(status))
    /\ UNCHANGED <<debug, slm_open, display_open, display_number,
                   display_options, wavelength, phase, contrast, dev>>

SlmInit ==
    /\ Init
    /\ ModelIdle
    /\ debug \in BOOLEAN
    /\ ParamsDefault
    /\ \E w \in DevWavelengths, p \in DevPhases :
          dev = [open |-> FALSE, display |-> 0, wl |-> w, ph |-> p]

\* toggle_open, SLM closed
OpenSlm(on, dvi, read) ==
    LET calls == <<Call("SLM_Ctrl_Open", <<SlmNumber>>, on)>>
                 \o (IF on THEN <<Call("SLM_Ctrl_WriteVI", <<SlmNumber, 1>>, dvi)>>
                     ELSE <<>>)
                 \o (IF on /\ dvi THEN <<Call("SLM_Ctrl_ReadWL", <<SlmNumber>>, read)>>
                     ELSE <<>>)
        done == on /\ dvi /\ read
    IN  /\ dev' = [dev EXCEPT !.open = @ \/ on]
        /\ wavelength' = IF done THEN ClampWavelength(dev.wl) ELSE wavelength
        /\ phase' = IF done THEN PhaseOfMachine(dev.ph) ELSE phase
        /\ slm_open' = done
        /\ last' = Invocation("Toggle Open", IF done THEN "none" ELSE "SlmError",
                              TRUE, calls)
        /\ UNCHANGED <<debug, display_open, display_number, display_options, contrast>>

DisplayToCloseSkipped == FALSE

\* if self.params['_display_open'].value
DisplayToClose == display_open

\* toggle_open, SLM open
CloseSlm(offDisplay, offSlm) ==
    LET unset == DisplayToClose /\ display_number = ""
        n == IntOf(display_number)
        closing == DisplayToClose /\ ~unset
        displayDone == ~DisplayToClose \/ (closing /\ offDisplay)
        done == displayDone /\ offSlm
        calls == (IF closing THEN <<Call("SLM_Disp_Close", <<n>>, offDisplay)>>
                  ELSE <<>>)
                 \o (IF displayDone
                     THEN <<Call("SLM_Ctrl_Close", <<SlmNumber>>, offSlm)>>
                     ELSE <<>>)
    IN  /\ display_open' = IF closing /\ offDisplay THEN FALSE ELSE display_open
        /\ slm_open' = ~done
        /\ dev' = [dev EXCEPT
                     !.display = IF closing /\ offDisplay /\ @ = n THEN 0 ELSE @,
                     !.open = @ /\ ~done]
        /\ last' = Invocation("Toggle Open", IF done THEN "none" ELSE "SlmError",
                              TRUE, calls)
        /\ UNCHANGED <<debug, display_number, display_options, wavelength, phase,
                       contrast>>

ToggleOpen ==
    IF debug
    THEN /\ last' = Invocation("Toggle Open", "none", TRUE, <<>>)
         /\ UNCHANGED <<debug, slm_open, display_open, display_number,
                        display_options, wavelength, phase, contrast, dev>>
    ELSE IF ~slm_open
    THEN \E on, dvi, read \in BOOLEAN : OpenSlm(on, dvi, read)
    ELSE \E offDisplay, offSlm \in BOOLEAN : CloseSlm(offDisplay, offSlm)

\* settings and display_settings: the popup is all they do
OpenPopup(name, status) ==
    IF SlmGate(status)
    THEN /\ last' = Invocation(name, "none", TRUE, StatusCalls(status))
         /\ UNCHANGED <<debug, slm_open, display_open, display_number,
                        display_options, wavelength, phase, contrast, dev>>
    ELSE Refused(name, status)

Settings == \E status \in BOOLEAN : OpenPopup("Settings", status)

DisplaySettings == \E status \in BOOLEAN : OpenPopup("Display Settings", status)

ToggleDisplay ==
    \E status, reply \in BOOLEAN :
        IF ~(SlmGate(status) /\ EnsureDisplayNumber)
        THEN Refused("Toggle Display", status)
        ELSE IF debug
        THEN /\ last' = Invocation("Toggle Display", "none", TRUE, <<>>)
             /\ UNCHANGED <<debug, slm_open, display_open, display_number,
                            display_options, wavelength, phase, contrast, dev>>
        ELSE LET n == IntOf(display_number)
                 fn == IF display_open THEN "SLM_Disp_Close" ELSE "SLM_Disp_Open"
             IN  /\ display_open' = IF reply THEN ~display_open ELSE display_open
                 /\ dev' = [dev EXCEPT !.display =
                               IF ~reply THEN @
                               ELSE IF ~display_open THEN n
                               ELSE IF @ = n THEN 0 ELSE @]
                 /\ last' = Invocation("Toggle Display",
                                       IF reply THEN "none" ELSE "SlmError", TRUE,
                                       StatusCalls(status) \o <<Call(fn, <<n>>, reply)>>)
                 /\ UNCHANGED <<debug, slm_open, display_number, display_options,
                                wavelength, phase, contrast>>

PhaseSettings ==
    \E status, read \in BOOLEAN :
        IF ~DisplayGate(status)
        THEN Refused("Phase Settings", status)
        ELSE /\ wavelength' = IF ~debug /\ read THEN ClampWavelength(dev.wl)
                              ELSE wavelength
             /\ phase' = IF ~debug /\ read THEN PhaseOfMachine(dev.ph) ELSE phase
             /\ last' = Invocation("Phase Settings",
                                   IF debug \/ read THEN "none" ELSE "SlmError", TRUE,
                                   IF debug THEN <<>>
                                   ELSE StatusCalls(status)
                                        \o <<Call("SLM_Ctrl_ReadWL", <<SlmNumber>>, read)>>)
             /\ UNCHANGED <<debug, slm_open, display_open, display_number,
                            display_options, contrast, dev>>

SetTuning ==
    \E status, phase_set \in BOOLEAN :
        IF ~DisplayGate(status)
        THEN Refused("Set Tuning", status)
        ELSE LET machine == MachinePhase(phase)
             IN  /\ dev' = IF ~debug /\ phase_set
                           THEN [dev EXCEPT !.wl = wavelength, !.ph = machine]
                           ELSE dev
                 /\ last' = Invocation("Set Tuning",
                                IF debug \/ phase_set THEN "none" ELSE "SlmError", TRUE,
                                IF debug THEN <<>>
                                ELSE StatusCalls(status)
                                     \o <<Call("SLM_Ctrl_WriteWL",
                                               <<SlmNumber, wavelength, machine>>,
                                               phase_set)>>)
                 /\ UNCHANGED <<debug, slm_open, display_open, display_number,
                                display_options, wavelength, phase, contrast>>

\* the SLM_Disp_GrayScale part of write_contrast and incr_contrast
GrayScale(name, status, value, display) ==
    LET raised == IF debug THEN "none"
                  ELSE IF display_number = "" THEN "ValueError"
                  ELSE IF display THEN "none" ELSE "SlmError"
        calls == IF debug THEN <<>>
                 ELSE IF display_number = "" THEN StatusCalls(status)
                 ELSE StatusCalls(status)
                      \o <<Call("SLM_Disp_GrayScale",
                                <<IntOf(display_number), value>>, display)>>
    IN  last' = Invocation(name, raised, TRUE, calls)

WriteContrast ==
    \E status, display \in BOOLEAN :
        IF ~DisplayGate(status)
        THEN Refused("Write Contrast", status)
        ELSE /\ GrayScale("Write Contrast", status, contrast, display)
             /\ UNCHANGED <<debug, slm_open, display_open, display_number,
                            display_options, wavelength, phase, contrast, dev>>

IncrContrast ==
    \E status, display \in BOOLEAN :
        IF ~DisplayGate(status)
        THEN Refused("Incr Contrast", status)
        ELSE /\ contrast < ContrastCap
             /\ contrast' = IF contrast < MaxContrast THEN contrast + 1 ELSE contrast
             /\ GrayScale("Incr Contrast", status, contrast', display)
             /\ UNCHANGED <<debug, slm_open, display_open, display_number,
                            display_options, wavelength, phase, dev>>

\* handle_close has a docstring and no statement
handle_close ==
    /\ last' = Invocation("handle_close", "none", TRUE, <<>>)
    /\ UNCHANGED <<debug, slm_open, display_open, display_number,
                   display_options, wavelength, phase, contrast, dev>>

\* the Display Number getter: SLM_Disp_Info2 over the ports
display_number_get ==
    \E found \in SUBSET LcosDisplays :
        /\ display_options' = IF debug THEN 1..NumPorts
                              ELSE IF display_open THEN display_options
                              ELSE found
        /\ last' = Invocation("Display Number",
                       IF ~debug /\ display_open THEN "SlmError" ELSE "none", TRUE,
                       IF debug \/ display_open THEN <<>>
                       ELSE [n \in 1..NumPorts |->
                                Call("SLM_Disp_Info2", <<n>>, n \in found)])
        /\ UNCHANGED <<debug, slm_open, display_open, display_number,
                       wavelength, phase, contrast, dev>>

\* the user picks an entry of the Display Number dropdown
SelectDisplayNumber ==
    \E n \in display_options :
        /\ display_number' = StrOf(n)
        /\ last' = Invocation("select Display Number", "none", FALSE, <<>>)
        /\ UNCHANGED <<debug, slm_open, display_open, display_options,
                       wavelength, phase, contrast, dev>>

\* the user types a value into the Phase spinbox
EditPhase ==
    \E k \in PhaseChoices :
        /\ phase' = PhaseValue(k)
        /\ last' = Invocation("edit Phase", "none", FALSE, <<>>)
        /\ UNCHANGED <<debug, slm_open, display_open, display_number,
                       display_options, wavelength, contrast, dev>>

SlmNext ==
    \/ ToggleOpen /\ UNCHANGED <<scriptVars, modelVars>>
    \/ Settings /\ UNCHANGED <<scriptVars, modelVars>>
    \/ DisplaySettings /\ UNCHANGED <<scriptVars, modelVars>>
    \/ ToggleDisplay /\ UNCHANGED <<scriptVars, modelVars>>
    \/ PhaseSettings /\ UNCHANGED <<scriptVars, modelVars>>
    \/ SetTuning /\ UNCHANGED <<scriptVars, modelVars>>
    \/ WriteContrast /\ UNCHANGED <<scriptVars, modelVars>>
    \/ IncrContrast /\ UNCHANGED <<scriptVars, modelVars>>
    \/ handle_close /\ UNCHANGED <<scriptVars, modelVars>>
    \/ display_number_get /\ UNCHANGED <<scriptVars, modelVars>>
    \/ SelectDisplayNumber /\ UNCHANGED <<scriptVars, modelVars>>
    \/ EditPhase /\ UNCHANGED <<scriptVars, modelVars>>

SlmSpec == SlmInit /\ [][SlmNext]_vars

\* ------------------------------------------------------------ derived notions
Wavelengths == 0..(NumWavelengths - 1)

ForWavelength(w, c) == c.wav = w

\* the curve_fit invocations made for wavelength w, in order
CallsOf(w) == SelectSeq(fitCalls, LAMBDA c : ForWavelength(w, c))

\* <<stage, succeeded>> of each invocation made for wavelength w
Outcomes(w) ==
    [k \in 1..Len(CallsOf(w)) |-> <<CallsOf(w)[k].stage, CallsOf(w)[k].outcome = "ok">>]

\* the invocation sequences of a cascade that has ended: Failed(0), Failed(1),
\* Failed(2) and Done
CascadeDone == <<<<0, TRUE>>, <<1, TRUE>>, <<2, TRUE>>>>

CascadeFailed(st) ==
    [k \in 1..(st + 1) |-> IF k = st + 1 THEN <<st, FALSE>> ELSE <<k - 1, TRUE>>]

Done(w) == Outcomes(w) = CascadeDone

Failed(w) == \E st \in 0..2 : Outcomes(w) = CascadeFailed(st)

FitFailedFor(w) == \E k \in 1..Len(CallsOf(w)) : CallsOf(w)[k].outcome # "ok"

DatasetLoaded == pc # "load"

GuessBuilt == pc \notin {"load", "guess"}

\* all intensities equal, or the window peak sits at the index of the global minimum
Degenerate(s) == ArgMaxFirst(s, PeakWindow) = ArgMin(s)

\* ------------------------------------------------------------ claims

\* C1 (as claimed): when the run finishes, every wavelength's cascade has run its
\* fits in the order linear, first-order, second-order, each stage attempted only
\* after the one before succeeded, and has ended in Done after three successes
\* or in Failed(k) after its first failure.
C1_CascadeOrder ==
    pc = "finished" => \A w \in Wavelengths : Done(w) \/ Failed(w)

\* C3 (as claimed): a failed fit for one wavelength is not process-fatal, and at
\* the end of the run every other wavelength has run its cascade to Done or Failed.
C3_FailureNotFatal ==
    \A w \in Wavelengths :
        FitFailedFor(w) =>
            /\ pc # "crashed"
            /\ pc = "finished" => \A v \in Wavelengths \ {w} : Done(v) \/ Failed(v)

\* C4 (as claimed): when the pipeline finishes, the output holds exactly one
\* record per input wavelength, five in all, in input wavelength order.
C4_OneRecordPerWavelength ==
    pc = "finished" =>
        [k \in 1..Len(plotted) |-> plotted[k].wav] = [k \in 1..NumWavelengths |-> k - 1]

\* C5 (as claimed): when the pipeline finishes, every wavelength that did not
\* reach Done has ratio and standard-error fields that are not numbers.
C5_SentinelWhenNotDone ==
    pc = "finished" =>
        \A w \in Wavelengths :
            ~Done(w) =>
                /\ nonlinearity1[w + 1] \notin Int
                /\ nonlinearity2[w + 1] \notin Int
                /\ \A j \in 1..2 : err[w + 1][j] \notin Int

C8_DegenerateRaises ==
    (DatasetLoaded /\ Degenerate(intensity)) =>
        /\ CallsOf(i) = <<>>
        /\ GuessBuilt => exc = "DegenerateDatasetError"

\* C11 (as claimed): every failed fit has an explicit failure record in the
\* output, carrying its wavelength, its stage and its cause.
C11_FailureRecorded ==
    \A w \in Wavelengths :
        FitFailedFor(w) =>
            \E k \in 1..Len(plotted) :
                /\ plotted[k].wav = w
                /\ {"stage", "cause"} \subseteq DOMAIN plotted[k]

\* C12: in one run, curve_fit is invoked at most once for each (wavelength,
\* stage) pair; a failed fit is never invoked again.
C12_NoRetry ==
    \A j, k \in 1..Len(fitCalls) :
        (fitCalls[j].wav = fitCalls[k].wav /\ fitCalls[j].stage = fitCalls[k].stage)
            => j = k

\* C12 witness: the Stage0 fit did not converge and the run has ended with
\* that single invocation.
C12_Witness ==
    /\ pc = "crashed"
    /\ exc = "RuntimeError"
    /\ fitCalls = <<FitCall(0, 0, "RuntimeError")>>

\* C13 (as claimed): when the run has ended, every wavelength's cascade is in
\* exactly one of the terminal states Done and Failed.
C13_CascadeTerminal ==
    pc \in {"finished", "crashed"} =>
        \A w \in Wavelengths :
            /\ Done(w) \/ Failed(w)
            /\ ~(Done(w) /\ Failed(w))

\* C20: with d = 0 the first-order model has the phase argument and the
\* prediction of the linear model at the same (x0, a, b, c), and with e = 0 the
\* second-order model has those of the first-order model; so a parameter vector
\* extended with 0 predicts what the vector itself predicts one model below.
C20_ModelNesting ==
    mdl.out # <<>> =>
        LET v == mdl.args
        IN  /\ nonlinear1_cos_square(v.x, v.x0, v.a, v.b, v.c, 0) = mdl.out.linear
            /\ nonlinear2_cos_square(v.x, v.x0, v.a, v.b, v.c, v.d, 0) = mdl.out.first
            /\ v.d = 0 => mdl.out.first = mdl.out.linear
            /\ v.e = 0 => mdl.out.second = mdl.out.first

\* C20 witness: the models have been evaluated away from x0 with a non-zero
\* frequency and both higher coefficients 0.
C20_Witness ==
    /\ mdl.out # <<>>
    /\ mdl.args.d = 0
    /\ mdl.args.e = 0
    /\ mdl.args.b # 0
    /\ mdl.args.x # mdl.args.x0
    /\ mdl.args.x0 # 0
    /\ mdl.out.second = mdl.out.linear

\* ------------------------------------------------------------ SlmDVI claims
\* the handler's calls into the device other than the status read
DeviceCalls(inv) ==
    {k \in 1..Len(inv.calls) : inv.calls[k].fn # "SLM_Ctrl_ReadSU"}

\* the status read of the invocation returned SLM_OK
StatusOk(inv) ==
    \E k \in 1..Len(inv.calls) :
        inv.calls[k].fn = "SLM_Ctrl_ReadSU" /\ inv.calls[k].ok

\* the invocation called fn and the device answered SLM_OK
Answered(inv, fn) ==
    \E k \in 1..Len(inv.calls) : inv.calls[k].fn = fn /\ inv.calls[k].ok

NeedDisplay == {"Write Contrast", "Incr Contrast", "Set Tuning", "Phase Settings"}

NeedSlm == {"Settings", "Display Settings", "Toggle Display"}

\* the step changes no param and nothing in the device, calls nothing but the
\* status read, and raises SlmError
OnlyRaises ==
    /\ last'.raised = "SlmError"
    /\ DeviceCalls(last') = {}
    /\ UNCHANGED <<slm_open, display_open, display_number, display_options,
                   wavelength, phase, contrast, dev>>

\* C14: in non-debug mode, a step of Write Contrast, Incr Contrast, Set Tuning
\* or Phase Settings taken when _slm_open is not set, or the status read does
\* not return SLM_OK, or _display_open is not set, only raises SlmError; a step
\* of Settings, Display Settings or Toggle Display taken when _slm_open is not
\* set or the status read does not return SLM_OK only raises SlmError.
C14_EnsurersGate ==
    [][ ~debug =>
          /\ (last'.action \in NeedDisplay
              /\ ~(slm_open /\ StatusOk(last') /\ display_open)) => OnlyRaises
          /\ (last'.action \in NeedSlm
              /\ ~(slm_open /\ StatusOk(last'))) => OnlyRaises ]_vars

\* C14 witness: Write Contrast was pressed with the SLM open and ready and the
\* display closed, and was refused.
C14_Witness ==
    /\ ~debug
    /\ last.action = "Write Contrast"
    /\ last.pre_slm_open
    /\ StatusOk(last)
    /\ ~last.pre_display_open
    /\ last.raised = "SlmError"
    /\ ~last.entered

\* C15 (as claimed): after handle_close both flags are 0, and a close call was
\* issued to the device for whatever was open.
C15_HandleCloseCloses ==
    last.action = "handle_close" =>
        /\ ~slm_open
        /\ ~display_open
        /\ last.pre_slm_open =>
               \E k \in DeviceCalls(last) : last.calls[k].fn = "SLM_Ctrl_Close"
        /\ last.pre_display_open =>
               \E k \in DeviceCalls(last) : last.calls[k].fn = "SLM_Disp_Close"

\* C16 (as claimed): a successful Set Tuning writes 100 x Phase to the device
\* as an integer, and reading that register value back gives the Phase that
\* was written.
C16_PhaseRoundTrip ==
    (last.action = "Set Tuning" /\ Answered(last, "SLM_Ctrl_WriteWL")) =>
        /\ \A k \in 0..MaxPhase : phase = PhaseValue(k) => dev.ph = k
        /\ PhaseOfMachine(dev.ph) = phase

\* C17: in non-debug mode, whenever _display_open is set, _slm_open is set,
\* whatever the device answered to the calls made so far.
C17_DisplayImpliesSlm == ~debug => (display_open => slm_open)

\* C17 witness: Toggle Open was pressed with SLM and display open; the display
\* closed and the SLM close failed.
C17_Witness ==
    /\ ~debug
    /\ last.action = "Toggle Open"
    /\ last.pre_display_open
    /\ Answered(last, "SLM_Disp_Close")
    /\ last.raised = "SlmError"
    /\ slm_open
    /\ ~display_open

\* C18 (as claimed): in non-debug mode _slm_open is set exactly when the last
\* successful SLM_Ctrl_Open has not been followed by a successful
\* SLM_Ctrl_Close.
C18_FlagTracksDevice == ~debug => (slm_open <=> dev.open)

\* C19 (as claimed): every SLM_Disp_Close is passed the number that was passed
\* to the SLM_Disp_Open that opened the display.
C19_CloseWhatWasOpened ==
    \A k \in 1..Len(last.calls) :
        last.calls[k].fn = "SLM_Disp_Close" =>
            last.calls[k].args = <<last.pre_display>>

====
